---- MODULE Spec2Model ----
(***************************************************************************)
(* A model of the configuration core of mihoro (src/src/config.rs):        *)
(*   - the Config Store: Config::new, Config::write, Config::setup_from    *)
(*     and parse_config on the tool's own settings file (TOML);            *)
(*   - the Overlay Engine: apply_mihomo_override on the remote document    *)
(*     (YAML), through MihomoYamlConfig and its flattened `extra` map.     *)
(*                                                                         *)
(* Files are modelled by their content: a TOML settings file as the table  *)
(* of its keys, a YAML document as the sequence of its top-level entries   *)
(* in file order.  Scalars carry their kind, so a type mismatch, a null    *)
(* and an enum spelling are all things a parse can meet.                   *)
(***************************************************************************)
EXTENDS Integers, Sequences, FiniteSets, TLC

VARIABLES
    settingsFile,   \* Option: content of the settings path (None: path absent)
    parentDir,      \* the settings path's parent directory exists
    ret,            \* result of the last load since the settings file last changed
    calls,          \* number of parse_config calls so far
    edited,         \* the settings file was changed by something else than parse_config
    cur,            \* Option: the in-memory Config handed to Config::write
    saved,          \* the settings file is what Config::write wrote from cur
    remoteDoc,      \* Option: content of the remote document path (None: unreadable)
    ov,             \* the MihomoConfig overrides handed to apply_mihomo_override
    pre,            \* remoteDoc as it was before the last apply_mihomo_override call
    ares            \* result of the last apply_mihomo_override call

vars == <<settingsFile, parentDir, ret, calls, edited, cur, saved,
          remoteDoc, ov, pre, ares>>

-----------------------------------------------------------------------------
(* Bounds of the model *)

\* number of distinct unrecognized top-level keys a remote document may carry
MaxExtra == 2
\* number of parse_config calls followed in one behaviour
MaxCalls == 3

-----------------------------------------------------------------------------
(* Option<T> and the scalars of a file *)

None == <<>>
Some(v) == <<v>>

VInt(n) == [k |-> "int", n |-> n, s |-> ""]
VStr(s) == [k |-> "str", n |-> 0, s |-> s]
VBool(b) == [k |-> "bool", n |-> IF b THEN 1 ELSE 0, s |-> ""]
VNull == [k |-> "null", n |-> 0, s |-> ""]
\* nested sequences and mappings are opaque to the tool: the tag stands for the content
VSeq(tag) == [k |-> "seq", n |-> 0, s |-> tag]
VMap(tag) == [k |-> "map", n |-> 0, s |-> tag]

Range(f) == {f[i] : i \in DOMAIN f}

-----------------------------------------------------------------------------
(* MihomoMode and MihomoLogLevel: each variant deserializes from its Rust   *)
(* name and from its alias, and serializes as rename(serialize = ...)      *)

MihomoMode ==
    << [variant |-> "Global", alias |-> "global", ser |-> "global"],
       [variant |-> "Rule",   alias |-> "rule",   ser |-> "rule"],
       [variant |-> "Direct", alias |-> "direct", ser |-> "direct"] >>

MihomoLogLevel ==
    << [variant |-> "Silent",  alias |-> "silent",  ser |-> "silent"],
       [variant |-> "Error",   alias |-> "error",   ser |-> "error"],
       [variant |-> "Warning", alias |-> "warning", ser |-> "warning"],
       [variant |-> "Info",    alias |-> "info",    ser |-> "info"],
       [variant |-> "Debug",   alias |-> "debug",   ser |-> "debug"] >>

Variants(enum) == {enum[i].variant : i \in DOMAIN enum}

\* a mutant: an unknown string falls back to the first variant instead of failing
DeEnum_Defaulting(enum, s) ==
    LET hits == {i \in DOMAIN enum : s = enum[i].variant \/ s = enum[i].alias}
    IN  IF hits = {} THEN Some(enum[1].variant)
        ELSE Some(enum[CHOOSE i \in hits : TRUE].variant)

\* a mutant: the aliases are not declared, only the Rust names deserialize
DeEnum_NoAlias(enum, s) ==
    LET hits == {i \in DOMAIN enum : s = enum[i].variant}
    IN  IF hits = {} THEN None
        ELSE Some(enum[CHOOSE i \in hits : TRUE].variant)

\* derive(Deserialize): the variant named s, or None for "unknown variant"
DeEnum(enum, s) ==
    LET hits == {i \in DOMAIN enum : s = enum[i].variant \/ s = enum[i].alias}
    IN  IF hits = {} THEN None
        ELSE Some(enum[CHOOSE i \in hits : TRUE].variant)

\* derive(Serialize): the string a variant is written as
SerEnum(enum, v) == enum[CHOOSE i \in DOMAIN enum : enum[i].variant = v].ser

EnumOf(kind) == IF kind = "mode" THEN MihomoMode ELSE MihomoLogLevel

U16Max == 65535

\* a typed field value as a scalar of the file
SerVal(kind, x) ==
    CASE kind = "u16"  -> VInt(x)
      [] kind = "bool" -> VBool(x)
      [] kind = "str"  -> VStr(x)
      [] OTHER         -> VStr(SerEnum(EnumOf(kind), x))

-----------------------------------------------------------------------------
(* MihomoYamlConfig: the ten recognized keys of the remote document, in the *)
(* order the struct declares them, and the flattened `extra` map           *)

YamlFields ==
    << [name |-> "port",                key |-> "port",                kind |-> "u16",   skip |-> FALSE],
       [name |-> "socks_port",          key |-> "socks-port",          kind |-> "u16",   skip |-> FALSE],
       [name |-> "allow_lan",           key |-> "allow-lan",           kind |-> "bool",  skip |-> TRUE],
       [name |-> "bind_address",        key |-> "bind-address",        kind |-> "str",   skip |-> TRUE],
       [name |-> "mode",                key |-> "mode",                kind |-> "mode",  skip |-> FALSE],
       [name |-> "log_level",           key |-> "log-level",           kind |-> "level", skip |-> FALSE],
       [name |-> "ipv6",                key |-> "ipv6",                kind |-> "bool",  skip |-> TRUE],
       [name |-> "external_controller", key |-> "external-controller", kind |-> "str",   skip |-> TRUE],
       [name |-> "external_ui",         key |-> "external-ui",         kind |-> "str",   skip |-> TRUE],
       [name |-> "secret",              key |-> "secret",              kind |-> "str",   skip |-> TRUE] >>

YamlKeys == {YamlFields[i].key : i \in DOMAIN YamlFields}

\* serde_yaml reading one recognized field: Some(typed value), or None on a type
\* mismatch.  A string field takes any scalar, as its text.
YamlDeVal(kind, v) ==
    CASE kind = "u16"  -> IF v.k = "int" /\ v.n >= 0 /\ v.n <= U16Max THEN Some(v.n) ELSE None
      [] kind = "bool" -> IF v.k = "bool" THEN Some(v.n = 1) ELSE None
      [] kind = "str"  -> CASE v.k = "str"  -> Some(v.s)
                            [] v.k = "int"  -> Some(ToString(v.n))
                            [] v.k = "bool" -> Some(IF v.n = 1 THEN "true" ELSE "false")
                            [] OTHER        -> None
      [] OTHER         -> IF v.k = "str" THEN DeEnum(EnumOf(kind), v.s) ELSE None

\* one recognized field of the document: an absent key and a null are None
YamlDeField(doc, f) ==
    LET at == {i \in DOMAIN doc : doc[i].key = f.key}
    IN  IF at = {} THEN [ok |-> TRUE, val |-> None]
        ELSE IF Cardinality(at) > 1 THEN [ok |-> FALSE, val |-> None]
        ELSE LET v == doc[CHOOSE i \in at : TRUE].val
             IN  IF v.k = "null" THEN [ok |-> TRUE, val |-> None]
                 ELSE [ok |-> YamlDeVal(f.kind, v) # None, val |-> YamlDeVal(f.kind, v)]

\* a mutant: the struct has no flattened map, unrecognized keys are dropped
YamlExtra_Dropped(doc) == [key \in {} |-> VNull]

\* #[serde(flatten)] extra: every other top-level key with its value untouched
\* (the last entry of a key wins in a HashMap)
YamlExtra(doc) ==
    [key \in {doc[i].key : i \in DOMAIN doc} \ YamlKeys |->
        doc[CHOOSE i \in DOMAIN doc :
                /\ doc[i].key = key
                /\ \A j \in DOMAIN doc : doc[j].key = key => j <= i].val]

\* serde_yaml::from_str::<MihomoYamlConfig>: an empty text is an error, and so
\* is a recognized key that is repeated or holds a value of the wrong type
serde_yaml_from_str(doc) ==
    LET d == [i \in DOMAIN YamlFields |-> YamlDeField(doc, YamlFields[i])]
        D(i) == d[i]
    IN  [ok |-> doc # <<>> /\ \A i \in DOMAIN YamlFields : D(i).ok,
         y  |-> [port                |-> D(1).val,
                 socks_port          |-> D(2).val,
                 allow_lan           |-> D(3).val,
                 bind_address        |-> D(4).val,
                 mode                |-> D(5).val,
                 log_level           |-> D(6).val,
                 ipv6                |-> D(7).val,
                 external_controller |-> D(8).val,
                 external_ui         |-> D(9).val,
                 secret              |-> D(10).val,
                 extra               |-> YamlExtra(doc)]]

\* a mutant: a port the remote document already sets is kept
Override_KeepPort(y, o) ==
    [y EXCEPT !.port = IF y.port # None THEN y.port ELSE Some(o.port),
              !.socks_port = Some(o.socks_port),
              !.allow_lan = o.allow_lan,
              !.bind_address = o.bind_address,
              !.mode = Some(o.mode),
              !.log_level = Some(o.log_level),
              !.ipv6 = o.ipv6,
              !.external_controller = o.external_controller,
              !.external_ui = o.external_ui,
              !.secret = o.secret]

\* "Apply config overrides"
Override(y, o) ==
    [y EXCEPT !.port = Some(o.port),
              !.socks_port = Some(o.socks_port),
              !.allow_lan = o.allow_lan,
              !.bind_address = o.bind_address,
              !.mode = Some(o.mode),
              !.log_level = Some(o.log_level),
              !.ipv6 = o.ipv6,
              !.external_controller = o.external_controller,
              !.external_ui = o.external_ui,
              !.secret = o.secret]

\* a mutant: no field has skip_serializing_if, a None is written as null
YamlEmitted_NoSkip(y, f) == TRUE

\* skip_serializing_if = "Option::is_none"
YamlEmitted(y, f) == ~(f.skip /\ y[f.name] = None)

\* the orders in which a HashMap with these keys may be iterated
HashOrders(keys) ==
    {o \in [1..Cardinality(keys) -> keys] :
        \A i, j \in 1..Cardinality(keys) : i # j => o[i] # o[j]}

\* serde_yaml::to_string: the recognized fields in declaration order, then the
\* entries of `extra` in the order the HashMap yields them
serde_yaml_to_string(y, order) ==
    LET Emit(f) == YamlEmitted(y, f)
        fs == SelectSeq(YamlFields, Emit)
    IN  [i \in 1..Len(fs) |->
            [key |-> fs[i].key,
             val |-> IF y[fs[i].name] = None THEN VNull
                     ELSE SerVal(fs[i].kind, y[fs[i].name][1])]]
        \o [i \in 1..Len(order) |-> [key |-> order[i], val |-> y.extra[order[i]]]]

\* fs::write: File::create, then write_all.  fault "open": the file cannot be
\* created and is left as it was; fault "write": the file was truncated and
\* write_all failed after `keep` entries; "none": the content is written
fs_write(old, content, fault) ==
    CASE fault.kind = "open"  -> [res |-> "open_error", file |-> old]
      [] fault.kind = "write" -> [res |-> "write_error",
                                  file |-> Some(SubSeq(content, 1, fault.keep))]
      [] OTHER                -> [res |-> "ok", file |-> Some(content)]

\* what write_all may have left of `content` when it fails: any proper prefix
WriteFaults(content) ==
    {[kind |-> "none", keep |-> 0], [kind |-> "open", keep |-> 0]}
    \cup {[kind |-> "write", keep |-> n] : n \in 0..(Len(content) - 1)}

\* a mutant: the target is opened for writing (and truncated) before it is parsed
apply_mihomo_override_TruncateFirst(file, o) ==
    IF file = None THEN {[res |-> "read_error", file |-> file]}
    ELSE LET p == serde_yaml_from_str(file[1])
             y == Override(p.y, o)
         IN  IF ~p.ok THEN {[res |-> "parse_error", file |-> Some(<<>>)]}
             ELSE UNION {{fs_write(file, serde_yaml_to_string(y, order), fault) :
                            fault \in WriteFaults(serde_yaml_to_string(y, order))} :
                         order \in HashOrders(DOMAIN y.extra)}

\* apply_mihomo_override(path, override_config) on a path holding `file`: the
\* outcomes the call may have, one for each order the HashMap may yield `extra`
\* in and each way fs::write may end
apply_mihomo_override(file, o) ==
    IF file = None THEN {[res |-> "read_error", file |-> file]}
    ELSE LET p == serde_yaml_from_str(file[1])
             y == Override(p.y, o)
         IN  IF ~p.ok THEN {[res |-> "parse_error", file |-> file]}
             ELSE UNION {{fs_write(file, serde_yaml_to_string(y, order), fault) :
                            fault \in WriteFaults(serde_yaml_to_string(y, order))} :
                         order \in HashOrders(DOMAIN y.extra)}

Apply ==
    /\ \E r \in apply_mihomo_override(remoteDoc, ov) :
          /\ remoteDoc' = r.file
          /\ ares' = r.res
    /\ pre' = remoteDoc
    /\ UNCHANGED <<ov, settingsFile, parentDir, ret, calls, edited, cur, saved>>

-----------------------------------------------------------------------------
(* Config and MihomoConfig, and the settings file (TOML) *)

\* the fields of struct Config before mihomo_config, in declaration order
TopFields ==
    <<"remote_mihomo_binary_url", "remote_config_url", "mihomo_binary_path",
      "mihomo_config_root", "user_systemd_root">>

\* the fields of struct MihomoConfig, in declaration order
TomlFields ==
    << [name |-> "port",                kind |-> "u16",   opt |-> FALSE],
       [name |-> "socks_port",          kind |-> "u16",   opt |-> FALSE],
       [name |-> "allow_lan",           kind |-> "bool",  opt |-> TRUE],
       [name |-> "bind_address",        kind |-> "str",   opt |-> TRUE],
       [name |-> "mode",                kind |-> "mode",  opt |-> FALSE],
       [name |-> "log_level",           kind |-> "level", opt |-> FALSE],
       [name |-> "ipv6",                kind |-> "bool",  opt |-> TRUE],
       [name |-> "external_controller", kind |-> "str",   opt |-> TRUE],
       [name |-> "external_ui",         kind |-> "str",   opt |-> TRUE],
       [name |-> "secret",              kind |-> "str",   opt |-> TRUE] >>

\* a mutant: the scaffold already names a remote config
Config_new_WithUrl ==
    [remote_mihomo_binary_url |-> "",
     remote_config_url        |-> "https://example.com/config.yaml",
     mihomo_binary_path       |-> "~/.local/bin/mihomo",
     mihomo_config_root       |-> "~/.config/mihomo",
     user_systemd_root        |-> "~/.config/systemd/user",
     mihomo_config |->
        [port                |-> 7890,
         socks_port          |-> 7891,
         allow_lan           |-> Some(FALSE),
         bind_address        |-> Some("*"),
         mode                |-> "Rule",
         log_level           |-> "Info",
         ipv6                |-> Some(TRUE),
         external_controller |-> Some("0.0.0.0:9090"),
         external_ui         |-> Some("ui"),
         secret              |-> None]]

\* Config::new()
Config_new ==
    [remote_mihomo_binary_url |-> "",
     remote_config_url        |-> "",
     mihomo_binary_path       |-> "~/.local/bin/mihomo",
     mihomo_config_root       |-> "~/.config/mihomo",
     user_systemd_root        |-> "~/.config/systemd/user",
     mihomo_config |->
        [port                |-> 7890,
         socks_port          |-> 7891,
         allow_lan           |-> Some(FALSE),
         bind_address        |-> Some("*"),
         mode                |-> "Rule",
         log_level           |-> "Info",
         ipv6                |-> Some(TRUE),
         external_controller |-> Some("0.0.0.0:9090"),
         external_ui         |-> Some("ui"),
         secret              |-> None]]

\* toml::to_string(&Config): the strings of Config, then the [mihomo_config]
\* table; a None is not written (the toml serializer skips it)
toml_to_string(c) ==
    LET mc == c.mihomo_config
        written == {i \in DOMAIN TomlFields :
                        ~(TomlFields[i].opt /\ mc[TomlFields[i].name] = None)}
        F(name) == TomlFields[CHOOSE i \in DOMAIN TomlFields : TomlFields[i].name = name]
    IN  [top |-> [key \in Range(TopFields) |-> VStr(c[key])],
         tab |-> [key \in {TomlFields[i].name : i \in written} |->
                    IF F(key).opt THEN SerVal(F(key).kind, mc[key][1])
                    ELSE SerVal(F(key).kind, mc[key])]]

\* toml reading one value into a field: Some(typed value), or None on a mismatch
TomlDeVal(kind, v) ==
    CASE kind = "u16"  -> IF v.k = "int" /\ v.n >= 0 /\ v.n <= U16Max THEN Some(v.n) ELSE None
      [] kind = "bool" -> IF v.k = "bool" THEN Some(v.n = 1) ELSE None
      [] kind = "str"  -> IF v.k = "str" THEN Some(v.s) ELSE None
      [] OTHER         -> IF v.k = "str" THEN DeEnum(EnumOf(kind), v.s) ELSE None

\* one field of [mihomo_config]: a missing Option is None, a missing required
\* field and a mismatch are errors
TomlDeField(tab, f) ==
    IF f.name \notin DOMAIN tab THEN [ok |-> f.opt, val |-> None]
    ELSE LET d == TomlDeVal(f.kind, tab[f.name])
         IN  [ok |-> d # None, val |-> IF f.opt \/ d = None THEN d ELSE d[1]]

\* toml::from_str::<Config>
toml_from_str(file) ==
    LET d == [i \in DOMAIN TomlFields |-> TomlDeField(file.tab, TomlFields[i])]
        topOk == \A i \in DOMAIN TopFields :
                    /\ TopFields[i] \in DOMAIN file.top
                    /\ file.top[TopFields[i]].k = "str"
        S(key) == IF topOk THEN file.top[key].s ELSE ""
    IN  [ok  |-> topOk /\ \A i \in DOMAIN TomlFields : d[i].ok,
         cfg |-> [remote_mihomo_binary_url |-> S("remote_mihomo_binary_url"),
                  remote_config_url        |-> S("remote_config_url"),
                  mihomo_binary_path       |-> S("mihomo_binary_path"),
                  mihomo_config_root       |-> S("mihomo_config_root"),
                  user_systemd_root        |-> S("user_systemd_root"),
                  mihomo_config |->
                     [port                |-> d[1].val,
                      socks_port          |-> d[2].val,
                      allow_lan           |-> d[3].val,
                      bind_address        |-> d[4].val,
                      mode                |-> d[5].val,
                      log_level           |-> d[6].val,
                      ipv6                |-> d[7].val,
                      external_controller |-> d[8].val,
                      external_ui         |-> d[9].val,
                      secret              |-> d[10].val]]]

NoCall == [kind |-> "NoCall", cfg |-> None, field |-> ""]
Failure(kind, field) == [kind |-> kind, cfg |-> None, field |-> field]

\* Config::setup_from(path) on a path holding `file`
setup_from(file) ==
    IF file = None THEN Failure("IO_FAIL", "")
    ELSE LET p == toml_from_str(file[1])
         IN  IF p.ok THEN [kind |-> "LOADED", cfg |-> Some(p.cfg), field |-> ""]
             ELSE Failure("PARSE_FAIL", "")

\* a mutant: remote_config_url is left out of the required fields
required_urls_NoRemoteUrl(config) ==
    << [field |-> "mihomo_binary_path", value |-> config.mihomo_binary_path],
       [field |-> "mihomo_config_root", value |-> config.mihomo_config_root],
       [field |-> "user_systemd_root",  value |-> config.user_systemd_root] >>

\* a mutant: the paths are checked before the url
required_urls_PathsFirst(config) ==
    << [field |-> "mihomo_binary_path", value |-> config.mihomo_binary_path],
       [field |-> "mihomo_config_root", value |-> config.mihomo_config_root],
       [field |-> "user_systemd_root",  value |-> config.user_systemd_root],
       [field |-> "remote_config_url",  value |-> config.remote_config_url] >>

\* let required_urls = [...]
required_urls(config) ==
    << [field |-> "remote_config_url",  value |-> config.remote_config_url],
       [field |-> "mihomo_binary_path", value |-> config.mihomo_binary_path],
       [field |-> "mihomo_config_root", value |-> config.mihomo_config_root],
       [field |-> "user_systemd_root",  value |-> config.user_systemd_root] >>

\* "Validate if urls are defined": the loop from entry i on, bailing at the
\* first empty value; None when it runs to its end
RECURSIVE ValidateFrom(_, _)
ValidateFrom(urls, i) ==
    IF i > Len(urls) THEN None
    ELSE IF urls[i].value = "" THEN Some(urls[i].field)
    ELSE ValidateFrom(urls, i + 1)

\* create_parent_dir(path): the parent directory exists afterwards
create_parent_dir(dirExists) == TRUE

\* Config::write(path): fs::write fails, and writes nothing, in a directory that
\* does not exist
Config_write(config, file, dirExists) ==
    IF dirExists THEN Some(toml_to_string(config)) ELSE file

\* parse_config(path) on a path holding `file`: what the path holds afterwards
\* and what the call returns
parse_config(file, dirExists) ==
    IF file = None
    THEN [file |-> Config_write(Config_new, file, create_parent_dir(dirExists)),
          ret  |-> Failure("BOOTSTRAPPED", "")]
    ELSE LET r == setup_from(file)
             bad == ValidateFrom(required_urls(r.cfg[1]), 1)
         IN  [file |-> file,
              ret  |-> IF r.kind # "LOADED" THEN r
                       ELSE IF bad # None THEN Failure("VALIDATION_FAIL", bad[1])
                       ELSE [kind |-> "VALID", cfg |-> r.cfg, field |-> ""]]

ParseConfig ==
    /\ calls < MaxCalls
    /\ LET r == parse_config(settingsFile, parentDir)
       IN  /\ settingsFile' = r.file
           /\ ret' = r.ret
    /\ parentDir' = create_parent_dir(parentDir)
    /\ calls' = calls + 1
    /\ UNCHANGED <<edited, cur, saved, remoteDoc, ov, pre, ares>>

\* Config::setup_from called on its own
SetupFrom ==
    /\ ret' = setup_from(settingsFile)
    /\ UNCHANGED <<settingsFile, parentDir, calls, edited, cur, saved,
                   remoteDoc, ov, pre, ares>>

\* Config::write of the Config in memory
Write ==
    /\ cur # None
    /\ settingsFile' = Config_write(cur[1], settingsFile, parentDir)
    /\ saved' = parentDir
    /\ edited' = TRUE
    /\ ret' = NoCall
    /\ UNCHANGED <<parentDir, calls, cur, remoteDoc, ov, pre, ares>>

\* what a user may put under a key of the settings file with an editor
NonEmptyValue(key) ==
    CASE key = "remote_mihomo_binary_url" -> "https://example.com/mihomo.gz"
      [] key = "remote_config_url"        -> "https://example.com/config.yaml"
      [] OTHER                            -> Config_new[key]

EnumEdits == {"rule", "Rule", "RULE", "info", "Info", "verbose"}

UserEdits ==
    {[tab |-> FALSE, key |-> key, val |-> VStr(s)] :
        key \in Range(TopFields), s \in {"", "x"}}
    \cup {[tab |-> TRUE, key |-> key, val |-> VStr(s)] :
            key \in {"mode", "log_level"}, s \in EnumEdits}

\* the user edits one key of the settings file between two runs
UserEdit ==
    /\ settingsFile # None
    /\ \E e \in UserEdits :
          LET v == IF e.val.s = "x" THEN VStr(NonEmptyValue(e.key)) ELSE e.val
          IN  settingsFile' =
                IF e.tab THEN Some([settingsFile[1] EXCEPT !.tab[e.key] = v])
                ELSE Some([settingsFile[1] EXCEPT !.top[e.key] = v])
    /\ edited' = TRUE
    /\ saved' = FALSE
    /\ ret' = NoCall
    /\ UNCHANGED <<parentDir, calls, cur, remoteDoc, ov, pre, ares>>

-----------------------------------------------------------------------------
(* The inputs of the Overlay Engine *)

OptionalFields == {"allow_lan", "bind_address", "ipv6", "external_controller",
                   "external_ui", "secret"}

\* a MihomoConfig whose optional fields are present exactly for `present`
MihomoConfigWith(present, port, socks, mode, level) ==
    [port                |-> port,
     socks_port          |-> socks,
     allow_lan           |-> IF "allow_lan" \in present THEN Some(FALSE) ELSE None,
     bind_address        |-> IF "bind_address" \in present THEN Some("*") ELSE None,
     mode                |-> mode,
     log_level           |-> level,
     ipv6                |-> IF "ipv6" \in present THEN Some(TRUE) ELSE None,
     external_controller |-> IF "external_controller" \in present
                             THEN Some("0.0.0.0:9090") ELSE None,
     external_ui         |-> IF "external_ui" \in present THEN Some("ui") ELSE None,
     secret              |-> IF "secret" \in present THEN Some("s3cret") ELSE None]

\* every choice of present optional fields, and every Mode and LogLevel variant
OptionalChoices ==
    {{}, OptionalFields}
    \cup {{f} : f \in OptionalFields}
    \cup {OptionalFields \ {f} : f \in OptionalFields}

\* the optional fields absent, present, one by one present and one by one
\* absent; and every Mode and LogLevel variant
Overrides ==
    {MihomoConfigWith(present, 7890, 7891, "Rule", "Info") : present \in OptionalChoices}
    \cup {MihomoConfigWith(OptionalFields, 0, U16Max, m, l) :
            m \in Variants(MihomoMode), l \in Variants(MihomoLogLevel)}

\* what the upstream document holds under a recognized key
RemoteVal(key) ==
    CASE key = "port"                -> VInt(1080)
      [] key = "socks-port"          -> VInt(1081)
      [] key = "allow-lan"           -> VBool(TRUE)
      [] key = "bind-address"        -> VStr("127.0.0.1")
      [] key = "mode"                -> VStr("global")
      [] key = "log-level"           -> VStr("debug")
      [] key = "ipv6"                -> VBool(FALSE)
      [] key = "external-controller" -> VStr("127.0.0.1:9090")
      [] key = "external-ui"         -> VStr("dashboard")
      [] key = "secret"              -> VStr("upstream")

\* well typed, null, or of a type no recognized field takes
ShapedVal(key, shape) ==
    CASE shape = "typed" -> RemoteVal(key)
      [] shape = "null"  -> VNull
      [] OTHER           -> VSeq("unexpected")

\* the recognized part of a document: no key, one key (well typed or not), or
\* all ten (well typed or null)
RecognizedParts ==
    {<<>>}
    \cup {<<[key |-> key, val |-> ShapedVal(key, shape)]>> :
            key \in YamlKeys, shape \in {"typed", "mismatch"}}
    \cup {[i \in DOMAIN YamlFields |->
            [key |-> YamlFields[i].key, val |-> ShapedVal(YamlFields[i].key, shape)]] :
            shape \in {"typed", "null"}}

ExtraKeyNames == <<"proxies", "proxy-groups", "rules", "dns", "tun", "hosts">>
ExtraKeys == {ExtraKeyNames[i] : i \in 1..MaxExtra}
ExtraVal(key) ==
    CASE key = "proxies"      -> VSeq("ss://a, vmess://b")
      [] key = "proxy-groups" -> VSeq("auto: [a, b]")
      [] key = "rules"        -> VSeq("MATCH,auto")
      [] key = "dns"          -> VMap("enable: true")
      [] key = "tun"          -> VBool(TRUE)
      [] OTHER                -> VMap("localhost: 127.0.0.1")

\* the unrecognized part: any of the extra keys
ExtraParts ==
    {LET o == SelectSeq(ExtraKeyNames, LAMBDA key : key \in keys)
     IN  [i \in 1..Len(o) |-> [key |-> o[i], val |-> ExtraVal(o[i])]] :
        keys \in SUBSET ExtraKeys}

\* the documents at the remote path before the first call: the unrecognized keys
\* after the recognized ones or before them
RemoteDocs ==
    ({r \o e : r \in RecognizedParts, e \in ExtraParts}
     \cup {e \o r : r \in {x \in RecognizedParts : Len(x) > 1}, e \in ExtraParts})
    \ {<<>>}

InitOverlay ==
    /\ remoteDoc \in {None} \cup {Some(d) : d \in RemoteDocs}
    /\ ov \in Overrides
    /\ pre = None
    /\ ares = "none"
    /\ settingsFile = None
    /\ parentDir = FALSE
    /\ ret = NoCall
    /\ calls = 0
    /\ edited = FALSE
    /\ cur = None
    /\ saved = FALSE

NextOverlay == Apply

SpecOverlay == InitOverlay /\ [][NextOverlay]_vars

-----------------------------------------------------------------------------
(* The Config Store from a settings path that does not exist yet *)

InitStore ==
    /\ settingsFile = None
    /\ parentDir \in BOOLEAN
    /\ ret = NoCall
    /\ calls = 0
    /\ edited = FALSE
    /\ cur = None
    /\ saved = FALSE
    /\ remoteDoc = None
    /\ ov = Config_new.mihomo_config
    /\ pre = None
    /\ ares = "none"

NextStore == ParseConfig \/ UserEdit

SpecStore == InitStore /\ [][NextStore]_vars

-----------------------------------------------------------------------------
(* Config::write followed by a load, for the Config values of the bound *)

RoundTripConfigs ==
    {[Config_new EXCEPT !.remote_mihomo_binary_url = b,
                        !.remote_config_url = u,
                        !.mihomo_config = mc] :
        b \in {"", NonEmptyValue("remote_mihomo_binary_url")},
        u \in {"", NonEmptyValue("remote_config_url")},
        mc \in {MihomoConfigWith(present, 7890, 7891, m, l) :
                    present \in SUBSET OptionalFields,
                    m \in Variants(MihomoMode), l \in Variants(MihomoLogLevel)}
               \cup {MihomoConfigWith(OptionalFields, 0, U16Max, "Rule", "Info")}}

InitRoundTrip ==
    /\ settingsFile = None
    /\ parentDir \in BOOLEAN
    /\ ret = NoCall
    /\ calls = 0
    /\ edited = FALSE
    /\ cur \in {Some(c) : c \in RoundTripConfigs}
    /\ saved = FALSE
    /\ remoteDoc = None
    /\ ov = Config_new.mihomo_config
    /\ pre = None
    /\ ares = "none"

NextRoundTrip == Write \/ SetupFrom \/ ParseConfig

SpecRoundTrip == InitRoundTrip /\ [][NextRoundTrip]_vars

-----------------------------------------------------------------------------
(* Both parsers on files whose mode and log level are strings of any spelling *)

RawEnumStrings ==
    {"global", "rule", "direct", "Global", "Rule", "Direct", "GLOBAL", "RULE",
     "silent", "error", "warning", "info", "debug",
     "Silent", "Error", "Warning", "Info", "Debug", "INFO", "warn", "auto", ""}

\* every spelling of the one field beside a few of the other
RawEnumPairs ==
    (RawEnumStrings \X {"info", "Info", "INFO"})
    \cup ({"rule", "Rule", "RULE"} \X RawEnumStrings)

InitEnum ==
    \E m \in RawEnumStrings, l \in RawEnumStrings :
        /\ <<m, l>> \in RawEnumPairs
        /\ settingsFile =
              Some([toml_to_string([Config_new EXCEPT !.remote_config_url =
                                        NonEmptyValue("remote_config_url")])
                        EXCEPT !.tab["mode"] = VStr(m), !.tab["log_level"] = VStr(l)])
        /\ remoteDoc = Some(<< [key |-> "mode", val |-> VStr(m)],
                               [key |-> "proxies", val |-> ExtraVal("proxies")],
                               [key |-> "log-level", val |-> VStr(l)] >>)
        /\ parentDir = TRUE
        /\ ret = NoCall
        /\ calls = 0
        /\ edited = TRUE
        /\ cur = None
        /\ saved = FALSE
        /\ ov = Config_new.mihomo_config
        /\ pre = None
        /\ ares = "none"

NextEnum == SetupFrom \/ ParseConfig \/ Apply

SpecEnum == InitEnum /\ [][NextEnum]_vars

-----------------------------------------------------------------------------
(* Properties of the Overlay Engine, under SpecOverlay *)

RecognizedKeyNames ==
    {"port", "socks-port", "allow-lan", "bind-address", "mode", "log-level",
     "ipv6", "external-controller", "external-ui", "secret"}

DocKeys(file) == IF file = None THEN {} ELSE {file[1][i].key : i \in DOMAIN file[1]}
DocValues(file, key) == {file[1][i].val : i \in {j \in DOMAIN file[1] : file[1][j].key = key}}
UnrecognizedKeys(file) == DocKeys(file) \ RecognizedKeyNames

\* C1: after a successful apply_mihomo_override the document on disk has exactly
\* the unrecognized top-level keys it had before the call, each with the value it
\* had before; only the ten recognized keys may differ.
C1_UnrecognizedKeysKept ==
    ares = "ok" =>
        /\ UnrecognizedKeys(remoteDoc) = UnrecognizedKeys(pre)
        /\ \A key \in UnrecognizedKeys(pre) :
              DocValues(remoteDoc, key) = DocValues(pre, key)

\* a successful call on a document with all the unrecognized keys of the bound
\* and a port the overrides replace
C1_Witness ==
    /\ ares = "ok"
    /\ Cardinality(UnrecognizedKeys(pre)) = MaxExtra
    /\ DocValues(pre, "port") = {VInt(1080)}
    /\ DocValues(remoteDoc, "port") = {VInt(7890)}

OptionalKeyOf ==
    [allow_lan |-> "allow-lan", bind_address |-> "bind-address", ipv6 |-> "ipv6",
     external_controller |-> "external-controller", external_ui |-> "external-ui",
     secret |-> "secret"]

\* C2: for each of the six optional override fields, if the field is absent in
\* the overrides and its key is in the document before the call, the key is
\* absent from the document a successful call writes.
C2_AbsentOverrideRemovesKey ==
    ares = "ok" =>
        \A f \in DOMAIN OptionalKeyOf :
            (ov[f] = None /\ OptionalKeyOf[f] \in DocKeys(pre))
                => OptionalKeyOf[f] \notin DocKeys(remoteDoc)

\* a successful call with no optional override on a document holding all six keys
C2_Witness ==
    /\ ares = "ok"
    /\ \A f \in DOMAIN OptionalKeyOf :
          /\ ov[f] = None
          /\ OptionalKeyOf[f] \in DocKeys(pre)
          /\ OptionalKeyOf[f] \notin DocKeys(remoteDoc)

ModeText == [Global |-> "global", Rule |-> "rule", Direct |-> "direct"]
LevelText == [Silent |-> "silent", Error |-> "error", Warning |-> "warning",
              Info |-> "info", Debug |-> "debug"]

\* C3: after every successful apply_mihomo_override, whatever the document held
\* before, it holds port, socks-port, mode and log-level, each with exactly the
\* value of the override field.
C3_RequiredKeysSet ==
    ares = "ok" =>
        /\ DocValues(remoteDoc, "port") = {VInt(ov.port)}
        /\ DocValues(remoteDoc, "socks-port") = {VInt(ov.socks_port)}
        /\ DocValues(remoteDoc, "mode") = {VStr(ModeText[ov.mode])}
        /\ DocValues(remoteDoc, "log-level") = {VStr(LevelText[ov.log_level])}

\* a successful call with 7890/7891/rule/info on a document with none of the four
C3_Witness ==
    /\ ares = "ok"
    /\ DocKeys(pre) \cap {"port", "socks-port", "mode", "log-level"} = {}
    /\ DocKeys(pre) # {}
    /\ ov.port = 7890 /\ ov.socks_port = 7891 /\ ov.mode = "Rule" /\ ov.log_level = "Info"
    /\ DocValues(remoteDoc, "mode") = {VStr("rule")}

\* C4: applying the same overrides twice in succession leaves a document
\* identical to the one left by applying them once: a successful call that
\* follows a successful call does not change the file.
C4_Idempotent ==
    [][(ares = "ok" /\ ares' = "ok") => remoteDoc' = remoteDoc]_vars

\* C8 as claimed: whenever apply_mihomo_override returns an error, the document
\* on disk is the one it was before the call.
C8_AnyErrorLeavesFile ==
    ares \notin {"none", "ok"} => remoteDoc = pre

\* C8 as amended: an error met before fs::write starts to write (the file cannot
\* be read, does not parse, or cannot be opened for writing) leaves the document
\* as it was; and a write that failed half way was of an output already composed
\* from a document that parsed: what it left holds nothing but recognized keys
\* and unrecognized entries of the document before.
C8_ErrorBeforeWriteLeavesFile ==
    /\ ares \in {"read_error", "parse_error", "open_error"} => remoteDoc = pre
    /\ ares = "write_error" =>
          /\ pre # None
          /\ \A key \in UnrecognizedKeys(remoteDoc) :
                DocValues(remoteDoc, key) = DocValues(pre, key)

\* a parse failure on a document that holds unrecognized keys too
C8_Witness ==
    /\ ares = "parse_error"
    /\ pre # None
    /\ UnrecognizedKeys(pre) # {}
    /\ remoteDoc = pre

-----------------------------------------------------------------------------
(* Properties of the Config Store, under SpecStore *)

\* the scaffold, value by value
DefaultFile ==
    [top |-> [remote_mihomo_binary_url |-> VStr(""),
              remote_config_url        |-> VStr(""),
              mihomo_binary_path       |-> VStr("~/.local/bin/mihomo"),
              mihomo_config_root       |-> VStr("~/.config/mihomo"),
              user_systemd_root        |-> VStr("~/.config/systemd/user")],
     tab |-> [port                |-> VInt(7890),
              socks_port          |-> VInt(7891),
              allow_lan           |-> VBool(FALSE),
              bind_address        |-> VStr("*"),
              mode                |-> VStr("rule"),
              log_level           |-> VStr("info"),
              ipv6                |-> VBool(TRUE),
              external_controller |-> VStr("0.0.0.0:9090"),
              external_ui         |-> VStr("ui")]]

\* the Settings the scaffold stands for once remote_config_url is url
DefaultSettings(url) ==
    [remote_mihomo_binary_url |-> "",
     remote_config_url        |-> url,
     mihomo_binary_path       |-> "~/.local/bin/mihomo",
     mihomo_config_root       |-> "~/.config/mihomo",
     user_systemd_root        |-> "~/.config/systemd/user",
     mihomo_config |->
        [port |-> 7890, socks_port |-> 7891, allow_lan |-> <<FALSE>>,
         bind_address |-> <<"*">>, mode |-> "Rule", log_level |-> "Info",
         ipv6 |-> <<TRUE>>, external_controller |-> <<"0.0.0.0:9090">>,
         external_ui |-> <<"ui">>, secret |-> <<>>]]

\* C5: parse_config on a path that does not exist creates the file with exactly
\* the default values and returns the bootstrap error; once the user has made
\* remote_config_url (and nothing else) non-empty, the next parse_config succeeds
\* and returns those Settings.
C5_BootstrapThenValid ==
    /\ (calls = 1 /\ ~edited) =>
          /\ settingsFile = Some(DefaultFile)
          /\ ret = [kind |-> "BOOTSTRAPPED", cfg |-> <<>>, field |-> ""]
    /\ LET url == "https://example.com/config.yaml"
       IN  (/\ settingsFile = Some([DefaultFile EXCEPT !.top.remote_config_url = VStr(url)])
            /\ ret.kind # "NoCall")
           => ret = [kind |-> "VALID", cfg |-> <<DefaultSettings(url)>>, field |-> ""]

\* the second call, after the bootstrap and the edit of remote_config_url
C5_Witness ==
    /\ calls = 2
    /\ edited
    /\ settingsFile = Some([DefaultFile EXCEPT !.top.remote_config_url =
                                VStr("https://example.com/config.yaml")])
    /\ ret.kind = "VALID"

\* C6: on a settings file that parses, parse_config fails with the validation
\* error naming the first empty field in the order remote_config_url,
\* mihomo_binary_path, mihomo_config_root, user_systemd_root, and succeeds only
\* when all four are non-empty.
C6_FirstEmptyFieldNamed ==
    ret.kind \in {"VALID", "VALIDATION_FAIL"} =>
        LET empty(key) == settingsFile[1].top[key].s = ""
            named == IF empty("remote_config_url") THEN "remote_config_url"
                     ELSE IF empty("mihomo_binary_path") THEN "mihomo_binary_path"
                     ELSE IF empty("mihomo_config_root") THEN "mihomo_config_root"
                     ELSE IF empty("user_systemd_root") THEN "user_systemd_root"
                     ELSE ""
        IN  /\ ret.kind = (IF named = "" THEN "VALID" ELSE "VALIDATION_FAIL")
            /\ ret.field = named

\* mihomo_config_root is named when user_systemd_root is empty too
C6_Witness ==
    /\ ret.kind = "VALIDATION_FAIL"
    /\ ret.field = "mihomo_config_root"
    /\ settingsFile[1].top["user_systemd_root"].s = ""
    /\ settingsFile[1].top["mihomo_config_root"].s = ""
    /\ settingsFile[1].top["remote_config_url"].s # ""

\* C10: from a settings path that does not exist and with no edit in between,
\* no parse_config call is VALID: the first ends in the bootstrap error with the
\* scaffold written, every later one in the validation error naming
\* remote_config_url, and the file stays the scaffold.
C10_NoEditNeverValid ==
    ~edited =>
        /\ ret.kind # "VALID"
        /\ calls = 0 => (settingsFile = None /\ ret.kind = "NoCall")
        /\ calls >= 1 => settingsFile = Some(DefaultFile)
        /\ calls = 1 => ret.kind = "BOOTSTRAPPED"
        /\ calls > 1 => (ret.kind = "VALIDATION_FAIL" /\ ret.field = "remote_config_url")

\* a third call in a row
C10_Witness ==
    /\ ~edited
    /\ calls > 2
    /\ ret.kind = "VALIDATION_FAIL"

-----------------------------------------------------------------------------
(* The round trip, under SpecRoundTrip *)

ValidSettings(c) ==
    /\ c.remote_config_url # ""
    /\ c.mihomo_binary_path # ""
    /\ c.mihomo_config_root # ""
    /\ c.user_systemd_root # ""

\* C7: Config::write of a Config followed by Config::setup_from yields a Config
\* equal to it field for field, and followed by parse_config yields it too when
\* the Config is valid (its four required strings non-empty).
C7_WriteThenLoad ==
    (saved /\ ret.kind # "NoCall") =>
        /\ ret.kind \notin {"PARSE_FAIL", "IO_FAIL", "BOOTSTRAPPED"}
        /\ ret.kind \in {"LOADED", "VALID"} => ret.cfg = cur
        /\ (ret.kind # "LOADED" /\ ValidSettings(cur[1])) => ret.kind = "VALID"

\* a valid Config with no optional override, mode direct and level debug, loaded
\* back by parse_config
C7_Witness ==
    /\ saved
    /\ ret.kind = "VALID"
    /\ \A f \in DOMAIN OptionalKeyOf : cur[1].mihomo_config[f] = <<>>
    /\ cur[1].mihomo_config.mode = "Direct"
    /\ cur[1].mihomo_config.log_level = "Debug"

-----------------------------------------------------------------------------
(* The closed enums, under SpecEnum *)

Parsed == {"LOADED", "VALID", "VALIDATION_FAIL"}
Applied == {"ok", "open_error", "write_error"}

\* C9 as claimed: a settings file or a remote document parses only if its mode
\* is exactly global, rule or direct and its log level exactly silent, error,
\* warning, info or debug.
C9_OnlyLowercaseParses ==
    /\ ret.kind \in Parsed =>
          /\ settingsFile[1].tab["mode"].s \in {"global", "rule", "direct"}
          /\ settingsFile[1].tab["log_level"].s
                \in {"silent", "error", "warning", "info", "debug"}
    /\ ares \in Applied =>
          /\ DocValues(pre, "mode") \subseteq
                {VStr(s) : s \in {"global", "rule", "direct"}}
          /\ DocValues(pre, "log-level") \subseteq
                {VStr(s) : s \in {"silent", "error", "warning", "info", "debug"}}

ModeSpellings == {"global", "rule", "direct", "Global", "Rule", "Direct"}
LevelSpellings == {"silent", "error", "warning", "info", "debug",
                   "Silent", "Error", "Warning", "Info", "Debug"}

\* C9 as amended: a settings file or a remote document parses only if its mode
\* is one of global, rule, direct, Global, Rule, Direct and its log level one of
\* silent, error, warning, info, debug, Silent, Error, Warning, Info, Debug; and
\* the value loaded is the variant so named, never a default.
C9_OnlyDeclaredSpellingsParse ==
    /\ ret.kind \in Parsed =>
          /\ settingsFile[1].tab["mode"].s \in ModeSpellings
          /\ settingsFile[1].tab["log_level"].s \in LevelSpellings
    /\ ret.kind \in {"LOADED", "VALID"} =>
          /\ settingsFile[1].tab["mode"].s
                \in {ret.cfg[1].mihomo_config.mode, ModeText[ret.cfg[1].mihomo_config.mode]}
          /\ settingsFile[1].tab["log_level"].s
                \in {ret.cfg[1].mihomo_config.log_level,
                     LevelText[ret.cfg[1].mihomo_config.log_level]}
    /\ ares \in Applied =>
          /\ DocValues(pre, "mode") \subseteq {VStr(s) : s \in ModeSpellings}
          /\ DocValues(pre, "log-level") \subseteq {VStr(s) : s \in LevelSpellings}

\* both parsers have refused RULE as a mode
C9_Witness ==
    /\ ret.kind = "PARSE_FAIL"
    /\ ares = "parse_error"
    /\ settingsFile[1].tab["mode"].s = "RULE"
    /\ settingsFile[1].tab["log_level"].s = "info"
    /\ DocValues(pre, "mode") = {VStr("RULE")}

====
